---- MODULE Spec2Model ----
(***************************************************************************)
(* Model of the scoutfs extended attribute code (src/src/xattr.c).         *)
(*                                                                         *)
(* One inode is modelled.  Its xattr items live in `items`, a function     *)
(* from keys <<name_hash, id, part>> to item payloads (byte sequences).    *)
(* sk_zone, skx_ino and sk_type are the same in every key init_xattr_key   *)
(* builds for the inode, so they are left out of the key tuple.            *)
(*                                                                         *)
(* Sizes are scaled down (see the constants) so that names of one or two   *)
(* bytes and values of up to seven bytes span one to three parts.          *)
(***************************************************************************)
EXTENDS Integers, Sequences, FiniteSets, TLC

(***************************************************************************)
(* Program constants (scaled).                                             *)
(***************************************************************************)
SCOUTFS_XATTR_MAX_NAME_LEN == 2
SCOUTFS_XATTR_MAX_VAL_LEN == 7
SCOUTFS_XATTR_MAX_PART_SIZE == 5
\* sizeof(struct scoutfs_xattr): u8 name_len, __le16 val_len
XATTR_HDR == 3
\* the largest name hash, the skx_name_hash of the last key of the inode
U32_MAX == 1
\* the skx_id of the last key of the inode; ids never come near it
U64_MAX == 1000000
\* the number of deletes scoutfs_xattr_drop covers with one transaction hold
DROP_ITEMS == 16

XATTR_CREATE == 1
XATTR_REPLACE == 2

ENOENT == 2
EIO == 5
E2BIG == 7
ENOMEM == 12
EEXIST == 17
EINVAL == 22
ERANGE == 34
ENODATA == 61
EOPNOTSUPP == 95

(***************************************************************************)
(* Bounds of the model.                                                    *)
(***************************************************************************)
\* ids si->next_xattr_id may hand out before set-with-value is cut off
MaxId == 3
\* busy answers of the transaction manager one set may see
MaxBusy == 1

\* a value pointer of NULL: no byte sequence of Values
NULL == <<-1>>
\* a byte of a kmalloc'ed buffer nothing has written yet
UNINIT == -1

Min(a, b) == IF a < b THEN a ELSE b

\* names: the first byte stands for the namespace prefix
Names == {<<1>>, <<2>>, <<1, 2>>}
Values == {<<>>, <<9>>, <<7, 6, 5, 4, 3, 2, 1>>}
GetSizes == {0, 1, 7, 8}
SetFlags == {0, XATTR_CREATE, XATTR_REPLACE}
\* arguments scoutfs_xattr_set turns down: a name of three bytes, a name
\* of no known prefix, a value of eight bytes, both flags, an unknown flag
LongName == <<1, 2, 1>>
LongValue == <<8, 7, 6, 5, 4, 3, 2, 1>>
InvalidNames == {LongName, <<5>>, <<5, 1, 1>>}
InvalidSets ==
    {<<LongName, <<9>>, 0>>, <<<<1>>, LongValue, 0>>,
     <<<<1>>, <<9>>, XATTR_CREATE + XATTR_REPLACE>>,
     <<<<1, 2>>, <<>>, 2 * XATTR_REPLACE>>,
     <<<<5>>, <<9>>, 0>>, <<<<5>>, <<9>>, XATTR_CREATE>>,
     <<LongName, LongValue, XATTR_CREATE + XATTR_REPLACE>>,
     <<<<5>>, LongValue, 2 * XATTR_REPLACE>>}
\* buffer sizes of listxattr: none, less than any entry, some entries, all
ListSizes == {0, 1, 3, 5, 7, 8}

(***************************************************************************)
(* Name hash, name comparison, record sizes.                               *)
(***************************************************************************)
RECURSIVE crc32c(_, _)
crc32c(crc, data) ==
    IF data = <<>> THEN crc
    ELSE crc32c((crc + Head(data)) % (U32_MAX + 1), Tail(data))

xattr_name_hash(name) == crc32c(U32_MAX, name)

\* xattr_names_equal without the test of the lengths
xattr_names_equal_no_len(a_name, a_len, b_name, b_len) ==
    \A i \in 1..a_len : a_name[i] = b_name[i]

xattr_names_equal(a_name, a_len, b_name, b_len) ==
    /\ a_len = b_len
    /\ \A i \in 1..a_len : a_name[i] = b_name[i]

\* the header fields of a struct scoutfs_xattr held in a byte buffer
xat_name_len(xat) == xat[1]
xat_val_len(xat) == xat[2] + 256 * xat[3]
xat_name(xat, len) == [i \in 1..len |-> xat[XATTR_HDR + i]]

xattr_full_bytes(xat) == XATTR_HDR + xat_name_len(xat) + xat_val_len(xat)

SCOUTFS_XATTR_NR_PARTS(name_len, val_len) ==
    (XATTR_HDR + name_len + val_len + SCOUTFS_XATTR_MAX_PART_SIZE - 1)
        \div SCOUTFS_XATTR_MAX_PART_SIZE

xattr_nr_parts(xat) == SCOUTFS_XATTR_NR_PARTS(xat_name_len(xat), xat_val_len(xat))

init_xattr_key(name_hash, id) == <<name_hash, id, 0>>

unknown_prefix(name) == name = <<>> \/ name[1] \notin {1, 2, 3, 4}

(***************************************************************************)
(* The item store, as far as xattr.c uses it.                              *)
(***************************************************************************)
KeyLE(a, b) ==
    \/ a[1] < b[1]
    \/ a[1] = b[1] /\ a[2] < b[2]
    \/ a[1] = b[1] /\ a[2] = b[2] /\ a[3] <= b[3]

\* the first item at or after key and not after last, copied into a
\* buffer of buflen bytes
scoutfs_item_next(its, key, last, buflen) ==
    LET cands == {k \in DOMAIN its : KeyLE(key, k) /\ KeyLE(k, last)}
    IN  IF cands = {} THEN [ret |-> -ENOENT, key |-> key, data |-> <<>>]
        ELSE LET k == CHOOSE c \in cands : \A d \in cands : KeyLE(c, d)
                 n == Min(Len(its[k]), buflen)
             IN  [ret |-> n, key |-> k, data |-> SubSeq(its[k], 1, n)]

scoutfs_item_create(its, key, val) ==
    [k \in DOMAIN its \cup {key} |-> IF k = key THEN val ELSE its[k]]

scoutfs_item_delete(its, key) ==
    [k \in DOMAIN its \ {key} |-> its[k]]

RECURSIVE scoutfs_item_restore(_, _)
scoutfs_item_restore(its, saved) ==
    IF saved = <<>> THEN its
    ELSE scoutfs_item_restore(
             scoutfs_item_create(its, Head(saved)[1], Head(saved)[2]),
             Tail(saved))

\* bytes copied to offset off of buffer buf
BufWrite(buf, off, data) ==
    [i \in 1..Len(buf) |->
        IF i > off /\ i <= off + Len(data) THEN data[i - off] ELSE buf[i]]

kmalloc(bytes) == [i \in 1..bytes |-> UNINIT]

(***************************************************************************)
(* get_next_xattr: the lookup / iteration loop.  name = <<>> stands for a  *)
(* NULL name with name_len 0.  The result carries ret, the key the loop    *)
(* left in *key and the caller's buffer.                                   *)
(***************************************************************************)
LastKey == init_xattr_key(U32_MAX, U64_MAX)

\* the corruption test of part 0's header; the header fields are only read
\* once ret covers the struct
bad_header(xat, ret, name_len) ==
    IF ret < XATTR_HDR THEN TRUE
    ELSE \/ xat_name_len(xat) <= name_len /\ ret < XATTR_HDR + xat_name_len(xat)
         \/ xat_name_len(xat) > SCOUTFS_XATTR_MAX_NAME_LEN
         \/ xat_val_len(xat) > SCOUTFS_XATTR_MAX_VAL_LEN

\* item_next_error that passes -ENOENT on after part 0
item_next_error_passed(ret, part) == ret

\* what the loop makes of an error of scoutfs_item_next: running out of
\* items after part 0 is corruption
item_next_error(ret, part) == IF ret = -ENOENT /\ part > 0 THEN -EIO ELSE ret

\* part == last_part ends the loop once total is added
last_part_reached(part, last_part) == part = last_part

\* the id the name search goes on from after a name that differs
next_search_id(id) == id + 1

RECURSIVE get_next_loop(_, _, _, _, _, _, _, _, _)
get_next_loop(its, key, xat, bytes, name, name_hash, part, last_part, total) ==
    LET name_len == Len(name)
        skey == <<key[1], key[2], part>>
        nx == scoutfs_item_next(its, skey, LastKey, bytes - total)
        fkey == nx.key
        fxat == BufWrite(xat, total, nx.data)
    IN  IF nx.ret < 0
        THEN [ret |-> item_next_error(nx.ret, part), key |-> skey, xat |-> xat]
        ELSE IF fkey[3] # part
        THEN [ret |-> -EIO, key |-> fkey, xat |-> fxat]
        ELSE IF part = 0 /\ bad_header(fxat, nx.ret, name_len)
        THEN [ret |-> -EIO, key |-> fkey, xat |-> fxat]
        ELSE IF part = 0 /\ name_len > 0 /\ fkey[1] # name_hash
        THEN [ret |-> -ENOENT, key |-> fkey, xat |-> fxat]
        ELSE IF /\ part = 0 /\ name_len > 0
                /\ ~xattr_names_equal(name, name_len,
                                      xat_name(fxat, name_len),
                                      xat_name_len(fxat))
        THEN get_next_loop(its, <<fkey[1], next_search_id(fkey[2]), fkey[3]>>,
                           fxat, bytes, name, name_hash, 0, last_part, total)
        ELSE LET lp == IF part = 0 /\ name_len > 0
                       THEN xattr_nr_parts(fxat) - 1 ELSE last_part
                 tot == total + nx.ret
             IN  IF tot = bytes \/ last_part_reached(part, lp)
                 THEN [ret |-> tot, key |-> fkey, xat |-> fxat]
                 ELSE get_next_loop(its, fkey, fxat, bytes, name, name_hash,
                                    part + 1, lp, tot)

get_next_xattr(its, xat, bytes, name, name_hash, id) ==
    IF Len(name) > 0 /\ bytes < XATTR_HDR + Len(name)
    THEN [ret |-> -EINVAL, key |-> init_xattr_key(name_hash, id), xat |-> xat]
    ELSE LET h == IF Len(name) > 0 THEN xattr_name_hash(name) ELSE name_hash
         IN  get_next_loop(its, init_xattr_key(h, id), xat, bytes, name, h, 0, 0, 0)

(***************************************************************************)
(* scoutfs_getxattr between down_read and up_read, and what it makes of    *)
(* the scan.  buf is what memcpy wrote to the caller's buffer (<<>> when   *)
(* nothing was written).                                                   *)
(***************************************************************************)
getxattr_bytes(name, size) == XATTR_HDR + Len(name) + size

getxattr_scan(its, name, size) ==
    get_next_xattr(its, kmalloc(getxattr_bytes(name, size)),
                   getxattr_bytes(name, size), name, 0, 0)

\* getxattr_too_small that also turns down a buffer of exactly val_len
getxattr_too_small_le(size, val_len) == size <= val_len

\* size < val_len: the caller's buffer is too small
getxattr_too_small(size, val_len) == size < val_len

getxattr_result(scan, size) ==
    IF scan.ret < 0
    THEN [ret |-> IF scan.ret = -ENOENT THEN -ENODATA ELSE scan.ret, buf |-> <<>>]
    ELSE IF size = 0
    THEN [ret |-> xat_val_len(scan.xat), buf |-> <<>>]
    ELSE IF getxattr_too_small(size, xat_val_len(scan.xat))
    THEN [ret |-> -ERANGE, buf |-> <<>>]
    ELSE IF scan.ret < xattr_full_bytes(scan.xat)
    THEN [ret |-> -EIO, buf |-> <<>>]
    ELSE [ret |-> xat_val_len(scan.xat),
          buf |-> [i \in 1..xat_val_len(scan.xat) |->
                      scan.xat[XATTR_HDR + xat_name_len(scan.xat) + i]]]

\* a whole scoutfs_getxattr of a name that passes the prefix and length
\* tests, with the inode lock granted
getxattr(its, name, size) == getxattr_result(getxattr_scan(its, name, size), size)

(***************************************************************************)
(* scoutfs_listxattr between down_read and up_read.                        *)
(***************************************************************************)
listxattr_bytes == XATTR_HDR + SCOUTFS_XATTR_MAX_NAME_LEN

\* list_cursor that goes on from the next name hash
list_cursor_next_hash(key) == <<key[1] + 1, 0>>

\* the name_hash and id the enumeration goes on from after the xattr at key
list_cursor(key) == <<key[1], key[2] + 1>>

\* list_too_small that also turns down a buffer the names fill exactly
list_too_small_ge(size, total) == size > 0 /\ total >= size

\* if (size) { if (total > size): the next name does not fit the buffer
list_too_small(size, total) == size > 0 /\ total > size

RECURSIVE listxattr_loop(_, _, _, _, _, _)
listxattr_loop(its, size, name_hash, id, total, buf) ==
    LET r == get_next_xattr(its, kmalloc(listxattr_bytes), listxattr_bytes,
                            <<>>, name_hash, id)
    IN  IF r.ret < 0
        THEN [ret |-> IF r.ret = -ENOENT THEN total ELSE r.ret, buf |-> buf]
        ELSE LET tot == total + xat_name_len(r.xat) + 1
             IN  IF list_too_small(size, tot)
                 THEN [ret |-> -ERANGE, buf |-> buf]
                 ELSE listxattr_loop(its, size, list_cursor(r.key)[1],
                          list_cursor(r.key)[2], tot,
                          IF size > 0
                          THEN buf \o xat_name(r.xat, xat_name_len(r.xat)) \o <<0>>
                          ELSE buf)

listxattr(its, size) == listxattr_loop(its, size, 0, 0, 0, <<>>)


(***************************************************************************)
(* State.                                                                  *)
(*   items          the xattr items of the inode                           *)
(*   next_xattr_id  si->next_xattr_id                                      *)
(*   rwsem          si->xattr_rwsem: the writer and the number of readers  *)
(*   w              the task in scoutfs_setxattr / scoutfs_removexattr     *)
(*   rd             the task in scoutfs_getxattr / scoutfs_listxattr       *)
(*   dr             the task in scoutfs_xattr_drop                         *)
(* w.pre and w.pre_id record items and next_xattr_id as scoutfs_xattr_set  *)
(* found them under the write lock, w.err_at the step that failed and      *)
(* w.tried whether the index/transaction acquisition was entered; the code *)
(* reads none of them.  Nor does it read rd.scanned (the scan has run),    *)
(* dr.deleted (the deletes done), dr.start (the items at the call),        *)
(* dr.holds and dr.releases (the scoutfs_hold_trans that succeeded and the *)
(* scoutfs_release_trans) and dr.batch (the deletes since the last hold).  *)
(***************************************************************************)
VARIABLES items, next_xattr_id, rwsem, w, rd, dr

vars == <<items, next_xattr_id, rwsem, w, rd, dr>>

NoKey == <<0, 0, 0>>

WIdle == [pc |-> "idle", name |-> <<>>, value |-> NULL, flags |-> 0,
          key |-> NoKey, found_parts |-> 0, id |-> 0, ret |-> 0,
          saved |-> <<>>, part |-> 0, lck |-> "none", trans |-> FALSE,
          busy |-> 0, pre |-> <<>>, pre_id |-> 0, err_at |-> "", tried |-> FALSE]

NoScan == [ret |-> 0, key |-> NoKey, xat |-> <<>>]
NoResult == [ret |-> 0, buf |-> <<>>]

RIdle == [pc |-> "idle", op |-> "none", name |-> <<>>, size |-> 0,
          scan |-> NoScan, res |-> NoResult, lck |-> "none",
          scanned |-> FALSE]

DIdle == [pc |-> "idle", key |-> NoKey, items |-> DROP_ITEMS,
          holding |-> FALSE, ret |-> 0, deleted |-> 0, dead |-> FALSE,
          start |-> 0, holds |-> 0, releases |-> 0, batch |-> 0]

Init ==
    /\ items = <<>>
    /\ next_xattr_id = 0
    /\ rwsem = [w |-> 0, r |-> 0]
    /\ w = WIdle
    /\ rd = RIdle
    /\ dr = DIdle

\* the buffer scoutfs_xattr_set fills in "prepare our xattr"
prepared_xat(name, value) ==
    <<Len(name), Len(value) % 256, Len(value) \div 256>> \o name \o value

(***************************************************************************)
(* scoutfs_setxattr, scoutfs_removexattr -> scoutfs_xattr_set.             *)
(***************************************************************************)
\* flags & bit, for a bit that is a power of two
HasFlag(flags, bit) == (flags \div bit) % 2 = 1

\* set_validate without the test of the prefix
set_validate_no_prefix(name, value, size, flags) ==
    IF Len(name) > SCOUTFS_XATTR_MAX_NAME_LEN THEN -ERANGE
    ELSE IF value # NULL /\ size > SCOUTFS_XATTR_MAX_VAL_LEN THEN -E2BIG
    ELSE IF \/ HasFlag(flags, XATTR_CREATE) /\ HasFlag(flags, XATTR_REPLACE)
            \/ flags \div (2 * XATTR_REPLACE) # 0
    THEN -EINVAL
    ELSE 0

set_validate(name, value, size, flags) ==
    IF Len(name) > SCOUTFS_XATTR_MAX_NAME_LEN THEN -ERANGE
    ELSE IF value # NULL /\ size > SCOUTFS_XATTR_MAX_VAL_LEN THEN -E2BIG
    ELSE IF \/ HasFlag(flags, XATTR_CREATE) /\ HasFlag(flags, XATTR_REPLACE)
            \/ flags \div (2 * XATTR_REPLACE) # 0
    THEN -EINVAL
    ELSE IF unknown_prefix(name) THEN -EOPNOTSUPP
    ELSE 0

\* entry and the argument tests; value is never NULL from scoutfs_setxattr
xattr_set_call(name, value, flags) ==
    /\ w.pc = "idle"
    /\ value # NULL => next_xattr_id < MaxId
    /\ LET size == IF value = NULL THEN 0 ELSE Len(value)
           v == set_validate(name, value, size, flags)
       IN  w' = [WIdle EXCEPT !.pc = IF v < 0 THEN "done" ELSE "lock",
                              !.name = name, !.value = value, !.flags = flags,
                              !.ret = v, !.err_at = IF v < 0 THEN "args" ELSE ""]
    /\ UNCHANGED <<items, next_xattr_id, rwsem, rd, dr>>

scoutfs_setxattr(name, value, flags) == xattr_set_call(name, value, flags)

\* scoutfs_removexattr without XATTR_REPLACE
scoutfs_removexattr_no_flag(name) == xattr_set_call(name, NULL, 0)

scoutfs_removexattr(name) == xattr_set_call(name, NULL, XATTR_REPLACE)

\* scoutfs_lock_inode(DLM_LOCK_EX)
SetLockInode ==
    /\ w.pc = "lock"
    /\ \E fail \in BOOLEAN :
          w' = IF fail THEN [w EXCEPT !.pc = "done", !.ret = -ENOMEM,
                                     !.err_at = "lock"]
               ELSE [w EXCEPT !.pc = "down_write", !.lck = "EX"]
    /\ UNCHANGED <<items, next_xattr_id, rwsem, rd, dr>>

\* down_write() waits for the readers and the writer to be gone
down_write_granted(sem) == sem.w = 0 /\ sem.r = 0

SetDownWrite ==
    /\ w.pc = "down_write"
    /\ down_write_granted(rwsem)
    /\ rwsem' = [rwsem EXCEPT !.w = 1]
    /\ w' = [w EXCEPT !.pc = "find"]
    /\ UNCHANGED <<items, next_xattr_id, rd, dr>>

\* set_check_flags with the two flags taken for each other
set_check_flags_swapped(ret, flags, value) ==
    IF ret < 0 /\ ret # -ENOENT THEN [go |-> FALSE, ret |-> ret]
    ELSE IF ret = -ENOENT /\ HasFlag(flags, XATTR_CREATE) THEN [go |-> FALSE, ret |-> -ENODATA]
    ELSE IF ret >= 0 /\ HasFlag(flags, XATTR_REPLACE) THEN [go |-> FALSE, ret |-> -EEXIST]
    ELSE IF ret = -ENOENT /\ value = NULL THEN [go |-> FALSE, ret |-> 0]
    ELSE [go |-> TRUE, ret |-> ret]

\* the existence tests on the lookup's ret
set_check_flags(ret, flags, value) ==
    IF ret < 0 /\ ret # -ENOENT THEN [go |-> FALSE, ret |-> ret]
    ELSE IF ret = -ENOENT /\ HasFlag(flags, XATTR_REPLACE) THEN [go |-> FALSE, ret |-> -ENODATA]
    ELSE IF ret >= 0 /\ HasFlag(flags, XATTR_CREATE) THEN [go |-> FALSE, ret |-> -EEXIST]
    ELSE IF ret = -ENOENT /\ value = NULL THEN [go |-> FALSE, ret |-> 0]
    ELSE [go |-> TRUE, ret |-> ret]

\* set_found_parts that takes every lookup for one that found nothing
set_found_parts_none(ret, xat) == 0

\* found_parts = ret >= 0 ? xattr_nr_parts(xat) : 0
set_found_parts(ret, xat) == IF ret >= 0 THEN xattr_nr_parts(xat) ELSE 0

\* next_xattr_id_after that leaves the counter where it was
next_xattr_id_after_same(next) == next

\* id = si->next_xattr_id++: the counter after an id has been drawn
next_xattr_id_after(next) == next + 1

\* find an existing xattr, check the flags, prepare our xattr
SetFind ==
    /\ w.pc = "find"
    /\ LET bytes == XATTR_HDR + Len(w.name)
           r == get_next_xattr(items, kmalloc(bytes), bytes, w.name, 0, 0)
           c == set_check_flags(r.ret, w.flags, w.value)
       IN  IF ~c.go
           THEN /\ w' = [w EXCEPT !.pc = "up_write", !.ret = c.ret,
                            !.pre = items, !.pre_id = next_xattr_id,
                            !.err_at = "find"]
                /\ UNCHANGED next_xattr_id
           ELSE /\ w' = [w EXCEPT !.pc = "trans", !.key = r.key,
                            !.pre = items, !.pre_id = next_xattr_id,
                            !.found_parts = set_found_parts(r.ret, r.xat),
                            !.id = IF w.value # NULL THEN next_xattr_id ELSE 0,
                            !.ret = r.ret]
                /\ next_xattr_id' = IF w.value # NULL
                                    THEN next_xattr_id_after(next_xattr_id)
                                    ELSE next_xattr_id
    /\ UNCHANGED <<items, rwsem, rd, dr>>

\* index_hold_retry that never goes back to retry
index_hold_retry_never(ret) == FALSE

\* if (ret > 0) goto retry: the index locks or the transaction were busy
index_hold_retry(ret) == ret > 0

\* retry: scoutfs_inode_index_start .. try_lock_hold.  The transaction
\* manager answers busy (r > 0) at most MaxBusy times to one call.
SetIndexHold ==
    /\ w.pc = "trans"
    /\ \E r \in {-ENOMEM, 0, 1} :
          /\ r > 0 => w.busy < MaxBusy
          /\ w' = IF index_hold_retry(r)
                  THEN [w EXCEPT !.busy = w.busy + 1, !.ret = r, !.tried = TRUE]
                  ELSE IF r # 0
                  THEN [w EXCEPT !.pc = "up_write", !.ret = r, !.tried = TRUE,
                          !.busy = IF r > 0 THEN w.busy + 1 ELSE w.busy,
                          !.err_at = "index"]
                  ELSE [w EXCEPT !.pc = "dirty", !.trans = TRUE, !.ret = 0,
                          !.tried = TRUE]
    /\ UNCHANGED <<items, next_xattr_id, rwsem, rd, dr>>

\* goto_after_dirty_error that leaves the transaction behind
goto_after_dirty_error_unlock == "up_write"

\* if (ret < 0) goto release
goto_after_dirty_error == "release"

\* scoutfs_dirty_inode_item
SetDirtyInode ==
    /\ w.pc = "dirty"
    /\ \E fail \in BOOLEAN :
          w' = IF fail THEN [w EXCEPT !.pc = goto_after_dirty_error,
                                     !.ret = -ENOMEM,
                                     !.err_at = "dirty"]
               ELSE [w EXCEPT !.ret = 0, !.part = 0,
                       !.pc = IF w.found_parts > 0 THEN "delete"
                              ELSE IF w.value # NULL THEN "create"
                              ELSE "commit"]
    /\ UNCHANGED <<items, next_xattr_id, rwsem, rd, dr>>

\* delete_more that stops one part early
delete_more_short(part, nr_parts) == part + 2 < nr_parts

\* while (ret == 0 && ++key.skx_part < nr_parts)
delete_more(part, nr_parts) == part + 1 < nr_parts

\* one turn of the loop of delete_xattr_items: scoutfs_item_delete_save
SetDeleteItem ==
    /\ w.pc = "delete"
    /\ LET key == <<w.key[1], w.key[2], w.part>>
       IN  \E fail \in BOOLEAN :
              IF fail \/ key \notin DOMAIN items
              THEN /\ items' = scoutfs_item_restore(items, w.saved)
                   /\ w' = [w EXCEPT !.pc = "release", !.saved = <<>>,
                              !.err_at = "delete",
                              !.ret = IF fail THEN -ENOMEM ELSE -ENOENT]
              ELSE /\ items' = scoutfs_item_delete(items, key)
                   /\ w' = [w EXCEPT !.saved = Append(w.saved, <<key, items[key]>>),
                              !.part = IF delete_more(w.part, w.found_parts)
                                       THEN w.part + 1 ELSE 0,
                              !.pc = IF delete_more(w.part, w.found_parts)
                                     THEN "delete"
                                     ELSE IF w.value # NULL THEN "create"
                                     ELSE "commit"]
    /\ UNCHANGED <<next_xattr_id, rwsem, rd, dr>>

\* create_part_val that leaves out the last byte of a full part
create_part_val_short(xat, total) ==
    SubSeq(xat, total + 1,
           total + Min(Len(xat) - total, SCOUTFS_XATTR_MAX_PART_SIZE - 1))

\* the bytes create_xattr_items puts in the part that starts at total
create_part_val(xat, total) ==
    SubSeq(xat, total + 1,
           total + Min(Len(xat) - total, SCOUTFS_XATTR_MAX_PART_SIZE))

\* create_cleanup as while (--key.skx_part > 0): part 0 is left behind
RECURSIVE create_cleanup_keeps_first(_, _, _, _)
create_cleanup_keeps_first(its, name_hash, id, part) ==
    IF part > 1
    THEN create_cleanup_keeps_first(
             scoutfs_item_delete(its, <<name_hash, id, part - 1>>),
             name_hash, id, part - 1)
    ELSE its

\* while (key.skx_part-- > 0) scoutfs_item_delete_dirty(sb, &key)
RECURSIVE create_cleanup(_, _, _, _)
create_cleanup(its, name_hash, id, part) ==
    IF part > 0
    THEN create_cleanup(scoutfs_item_delete(its, <<name_hash, id, part - 1>>),
                        name_hash, id, part - 1)
    ELSE its

\* one turn of the loop of create_xattr_items: scoutfs_item_create; a
\* failure cleans up and scoutfs_xattr_set restores the saved items
SetCreateItem ==
    /\ w.pc = "create"
    /\ LET xat == prepared_xat(w.name, w.value)
           hash == xattr_name_hash(w.name)
           key == <<hash, w.id, w.part>>
           total == w.part * SCOUTFS_XATTR_MAX_PART_SIZE
           val == create_part_val(xat, total)
       IN  \E fail \in BOOLEAN :
              IF fail \/ key \in DOMAIN items
              THEN /\ items' = scoutfs_item_restore(
                                   create_cleanup(items, hash, w.id, w.part),
                                   w.saved)
                   /\ w' = [w EXCEPT !.pc = "release", !.saved = <<>>,
                              !.err_at = "create",
                              !.ret = IF fail THEN -ENOMEM ELSE -EEXIST]
              ELSE /\ items' = scoutfs_item_create(items, key, val)
                   /\ w' = [w EXCEPT
                              !.part = IF total + Len(val) < Len(xat)
                                       THEN w.part + 1 ELSE w.part,
                              !.pc = IF total + Len(val) < Len(xat)
                                     THEN "create" ELSE "commit"]
    /\ UNCHANGED <<next_xattr_id, rwsem, rd, dr>>

\* scoutfs_item_free_batch, the inode update
SetCommit ==
    /\ w.pc = "commit"
    /\ w' = [w EXCEPT !.pc = "release", !.saved = <<>>, !.ret = 0]
    /\ UNCHANGED <<items, next_xattr_id, rwsem, rd, dr>>

\* release: scoutfs_release_trans, scoutfs_inode_index_unlock
SetRelease ==
    /\ w.pc = "release"
    /\ w' = [w EXCEPT !.pc = "up_write", !.trans = FALSE]
    /\ UNCHANGED <<items, next_xattr_id, rwsem, rd, dr>>

\* unlock: up_write
SetUpWrite ==
    /\ w.pc = "up_write"
    /\ rwsem' = [rwsem EXCEPT !.w = 0]
    /\ w' = [w EXCEPT !.pc = "unlock"]
    /\ UNCHANGED <<items, next_xattr_id, rd, dr>>

\* scoutfs_unlock(DLM_LOCK_EX), out
SetUnlock ==
    /\ w.pc = "unlock"
    /\ w' = [w EXCEPT !.pc = "done", !.lck = "none"]
    /\ UNCHANGED <<items, next_xattr_id, rwsem, rd, dr>>

SetReturn ==
    /\ w.pc = "done"
    /\ w' = WIdle
    /\ UNCHANGED <<items, next_xattr_id, rwsem, rd, dr>>


(***************************************************************************)
(* scoutfs_getxattr and scoutfs_listxattr.                                 *)
(***************************************************************************)
scoutfs_getxattr(name, size) ==
    /\ rd.pc = "idle"
    /\ rd' = IF unknown_prefix(name)
             THEN [RIdle EXCEPT !.pc = "done", !.op = "get", !.name = name,
                     !.size = size, !.res = [ret |-> -EOPNOTSUPP, buf |-> <<>>]]
             ELSE IF Len(name) > SCOUTFS_XATTR_MAX_NAME_LEN
             THEN [RIdle EXCEPT !.pc = "done", !.op = "get", !.name = name,
                     !.size = size, !.res = [ret |-> -ENODATA, buf |-> <<>>]]
             ELSE [RIdle EXCEPT !.pc = "lock", !.op = "get", !.name = name,
                     !.size = size]
    /\ UNCHANGED <<items, next_xattr_id, rwsem, w, dr>>

scoutfs_listxattr(size) ==
    /\ rd.pc = "idle"
    /\ rd' = [RIdle EXCEPT !.pc = "lock", !.op = "list", !.size = size]
    /\ UNCHANGED <<items, next_xattr_id, rwsem, w, dr>>

\* scoutfs_lock_inode(DLM_LOCK_PR)
ReadLockInode ==
    /\ rd.pc = "lock"
    /\ \E fail \in BOOLEAN :
          rd' = IF fail
                THEN [rd EXCEPT !.pc = "done", !.res = [ret |-> -ENOMEM, buf |-> <<>>]]
                ELSE [rd EXCEPT !.pc = "down_read", !.lck = "PR"]
    /\ UNCHANGED <<items, next_xattr_id, rwsem, w, dr>>

\* down_read that does not wait
down_read_no_wait(sem) == TRUE

\* down_read() waits for the writer to be gone
down_read_granted(sem) == sem.w = 0

ReadDownRead ==
    /\ rd.pc = "down_read"
    /\ down_read_granted(rwsem)
    /\ rwsem' = [rwsem EXCEPT !.r = rwsem.r + 1]
    /\ rd' = [rd EXCEPT !.pc = "scan"]
    /\ UNCHANGED <<items, next_xattr_id, w, dr>>

\* get_next_xattr of scoutfs_getxattr; the whole loop of scoutfs_listxattr
ReadScan ==
    /\ rd.pc = "scan"
    /\ rd' = IF rd.op = "get"
             THEN [rd EXCEPT !.pc = "up_read", !.scanned = TRUE,
                     !.scan = getxattr_scan(items, rd.name, rd.size)]
             ELSE [rd EXCEPT !.pc = "up_read", !.scanned = TRUE,
                     !.res = listxattr(items, rd.size)]
    /\ UNCHANGED <<items, next_xattr_id, rwsem, w, dr>>

\* up_read
ReadUpRead ==
    /\ rd.pc = "up_read"
    /\ rwsem' = [rwsem EXCEPT !.r = rwsem.r - 1]
    /\ rd' = [rd EXCEPT !.pc = "unlock"]
    /\ UNCHANGED <<items, next_xattr_id, w, dr>>

\* scoutfs_unlock(DLM_LOCK_PR), and what scoutfs_getxattr makes of the scan
ReadUnlock ==
    /\ rd.pc = "unlock"
    /\ rd' = [rd EXCEPT !.pc = "done", !.lck = "none", !.scan = NoScan,
                !.res = IF rd.op = "get"
                        THEN getxattr_result(rd.scan, rd.size) ELSE rd.res]
    /\ UNCHANGED <<items, next_xattr_id, rwsem, w, dr>>

ReadReturn ==
    /\ rd.pc = "done"
    /\ rd' = RIdle
    /\ UNCHANGED <<items, next_xattr_id, rwsem, w, dr>>

(***************************************************************************)
(* scoutfs_xattr_drop.  The inode is dead: no other task is in the xattr   *)
(* calls of the inode.  dr.dead says that a drop has been started and has  *)
(* not yet emptied the inode: until it has, the only call is another drop. *)
(***************************************************************************)
scoutfs_xattr_drop ==
    /\ dr.pc = "idle"
    /\ w.pc = "idle" /\ rd.pc = "idle"
    /\ dr' = [DIdle EXCEPT !.pc = "loop", !.key = init_xattr_key(0, 0),
                !.dead = TRUE, !.start = Cardinality(DOMAIN items)]
    /\ UNCHANGED <<items, next_xattr_id, rwsem, w, rd>>

\* drop_next_key that goes on from the next id
drop_next_key_inc(found) == <<found[1], found[2] + 1, 0>>

\* the key the next turn of the drop loop searches from, after deleting found
drop_next_key(found) == found

\* drop_batch_done that tests items before it counts the delete
drop_batch_done_late(items_left) == items_left - 1 < 0

\* if (--items == 0): the hold has covered all the deletes it was taken for
drop_batch_done(items_left) == items_left - 1 = 0

\* one turn of the loop of scoutfs_xattr_drop; a turn that leaves the loop
\* goes on to if (holding) scoutfs_release_trans
DropLoop ==
    /\ dr.pc = "loop"
    /\ LET nx == scoutfs_item_next(items, dr.key, LastKey, 0)
           held == IF dr.holding THEN 1 ELSE 0
       IN  IF nx.ret < 0
           THEN /\ dr' = [dr EXCEPT !.pc = "done", !.holding = FALSE,
                            !.releases = dr.releases + held,
                            !.ret = IF nx.ret = -ENOENT THEN 0 ELSE nx.ret]
                /\ UNCHANGED items
           ELSE \E hold_fail, delete_fail \in BOOLEAN :
                  IF ~dr.holding /\ hold_fail
                  THEN /\ dr' = [dr EXCEPT !.pc = "done", !.key = nx.key,
                                   !.ret = -ENOMEM]
                       /\ UNCHANGED items
                  ELSE IF delete_fail
                  THEN /\ dr' = [dr EXCEPT !.pc = "done", !.key = nx.key,
                                   !.holding = FALSE, !.ret = -ENOMEM,
                                   !.holds = dr.holds + 1 - held,
                                   !.batch = IF dr.holding THEN dr.batch ELSE 0,
                                   !.releases = dr.releases + 1]
                       /\ UNCHANGED items
                  ELSE /\ items' = scoutfs_item_delete(items, nx.key)
                       /\ dr' = [dr EXCEPT !.key = drop_next_key(nx.key),
                                   !.deleted = dr.deleted + 1,
                                   !.holds = dr.holds + 1 - held,
                                   !.batch = (IF dr.holding THEN dr.batch ELSE 0) + 1,
                                   !.releases = IF drop_batch_done(dr.items)
                                                THEN dr.releases + 1
                                                ELSE dr.releases,
                                   !.items = IF drop_batch_done(dr.items)
                                             THEN DROP_ITEMS ELSE dr.items - 1,
                                   !.holding = ~drop_batch_done(dr.items)]
    /\ UNCHANGED <<next_xattr_id, rwsem, w, rd>>

DropReturn ==
    /\ dr.pc = "done"
    /\ dr' = [DIdle EXCEPT !.dead = dr.ret # 0]
    /\ UNCHANGED <<items, next_xattr_id, rwsem, w, rd>>

(***************************************************************************)
(* One call at a time.                                                     *)
(***************************************************************************)
Idle == w.pc = "idle" /\ rd.pc = "idle" /\ dr.pc = "idle"

Quiet == Idle /\ ~dr.dead

SetSteps ==
    \/ SetLockInode \/ SetDownWrite \/ SetFind \/ SetIndexHold
    \/ SetDirtyInode \/ SetDeleteItem \/ SetCreateItem \/ SetCommit
    \/ SetRelease \/ SetUpWrite \/ SetUnlock \/ SetReturn

ReadSteps ==
    \/ ReadLockInode \/ ReadDownRead \/ ReadScan \/ ReadUpRead \/ ReadUnlock
    \/ ReadReturn

DropSteps == DropLoop \/ DropReturn

Next ==
    \/ Quiet /\ \E n \in Names, v \in Values, f \in SetFlags :
                   scoutfs_setxattr(n, v, f)
    \/ Quiet /\ \E n \in Names : scoutfs_removexattr(n)
    \/ Quiet /\ \E c \in InvalidSets : scoutfs_setxattr(c[1], c[2], c[3])
    \/ Quiet /\ \E n \in InvalidNames : scoutfs_removexattr(n)
    \/ Quiet /\ \E n \in Names, s \in GetSizes : scoutfs_getxattr(n, s)
    \/ Quiet /\ \E s \in ListSizes : scoutfs_listxattr(s)
    \/ Idle /\ scoutfs_xattr_drop
    \/ SetSteps
    \/ ReadSteps
    \/ DropSteps

Spec == Init /\ [][Next]_vars


(***************************************************************************)
(* What the items hold, read off the store without the lookup code.        *)
(***************************************************************************)
FirstParts(its) == {k \in DOMAIN its : k[3] = 0}

ItemName(val) == SubSeq(val, XATTR_HDR + 1, XATTR_HDR + val[1])

\* the instances (part 0 keys) that carry name
InstancesOf(its, name) == {k \in FirstParts(its) : ItemName(its[k]) = name}

Live(its, name) == InstancesOf(its, name) # {}

\* the items of the instance (name_hash, id)
InstanceItems(its, hash, id) ==
    {<<k, its[k]>> : k \in {x \in DOMAIN its : x[1] = hash /\ x[2] = id}}

\* the items of every instance that carries name
ItemsOfName(its, name) ==
    UNION {InstanceItems(its, k[1], k[2]) : k \in InstancesOf(its, name)}

\* the payloads of the parts part, part + 1, .. of an instance, joined
RECURSIVE InstanceBytes(_, _, _, _)
InstanceBytes(its, hash, id, part) ==
    IF <<hash, id, part>> \in DOMAIN its
    THEN its[<<hash, id, part>>] \o InstanceBytes(its, hash, id, part + 1)
    ELSE <<>>

\* the value the instance at the part 0 key k0 stores: what follows its name
ValueAt(its, k0) ==
    LET b == InstanceBytes(its, k0[1], k0[2], 0)
    IN  SubSeq(b, XATTR_HDR + b[1] + 1, Len(b))

\* the value a live name stores
StoredValue(its, name) ==
    ValueAt(its, CHOOSE k \in InstancesOf(its, name) : TRUE)

AllSizes == 0..(SCOUTFS_XATTR_MAX_VAL_LEN + 1)

\* scoutfs_xattr_set has returned to its caller
SetDone == w.pc = "done"

\* scoutfs_xattr_set has run its lookup under the write lock
SetSearched ==
    /\ w.err_at \notin {"args", "lock"}
    /\ w.pc \notin {"idle", "lock", "down_write", "find"}

(***************************************************************************)
(* C1. Round trip: once set(name, V) has returned success, a get of the    *)
(* name with a buffer of at least len(V) bytes (a size of 0 only for an    *)
(* empty V) returns len(V) and copies exactly the bytes of V, whether the  *)
(* name was absent or carried another value before.                        *)
(***************************************************************************)
C1_RoundTrip ==
    (SetDone /\ w.ret = 0 /\ w.value # NULL) =>
        \A size \in AllSizes :
            (size >= Len(w.value) /\ (size > 0 \/ Len(w.value) = 0)) =>
                getxattr(items, w.name, size)
                    = [ret |-> Len(w.value), buf |-> w.value]

\* a three part value has replaced another value of the name
C1_Witness ==
    /\ SetDone /\ w.ret = 0 /\ w.value # NULL
    /\ w.found_parts > 0
    /\ SCOUTFS_XATTR_NR_PARTS(Len(w.name), Len(w.value)) = 3
    /\ getxattr(w.pre, w.name, SCOUTFS_XATTR_MAX_VAL_LEN).buf # w.value
    /\ getxattr(items, w.name, Len(w.value)).buf = w.value

(***************************************************************************)
(* C2. Full rollback: when set found an existing instance, staged its      *)
(* deletion and then failed to create some part of the new instance, the   *)
(* items are those from before the call: the old parts are back, no part   *)
(* of the new instance is left and get returns the original value.         *)
(***************************************************************************)
C2_Rollback ==
    (SetDone /\ w.err_at = "create" /\ w.found_parts > 0) =>
        /\ w.ret < 0
        /\ items = w.pre
        /\ InstanceItems(items, xattr_name_hash(w.name), w.id) = {}
        /\ LET old == StoredValue(w.pre, w.name)
           IN  getxattr(items, w.name, SCOUTFS_XATTR_MAX_VAL_LEN)
                   = [ret |-> Len(old), buf |-> old]

\* creation failed at the third part after three old parts were staged
C2_Witness ==
    /\ SetDone /\ w.err_at = "create" /\ w.found_parts = 3 /\ w.part = 2
    /\ w.ret = -ENOMEM
    /\ items = w.pre

C5_ExistenceFlags ==
    (/\ SetSearched
     /\ \/ HasFlag(w.flags, XATTR_CREATE) /\ Live(w.pre, w.name)
        \/ HasFlag(w.flags, XATTR_REPLACE) /\ ~Live(w.pre, w.name)) =>
        /\ w.ret = IF HasFlag(w.flags, XATTR_CREATE) THEN -EEXIST ELSE -ENODATA
        /\ ~w.tried /\ ~w.trans
        /\ next_xattr_id = w.pre_id
        /\ items = w.pre

\* a CREATE of a live name has returned AlreadyExists
C5_Witness ==
    /\ SetDone /\ SetSearched /\ w.value # NULL
    /\ HasFlag(w.flags, XATTR_CREATE) /\ Live(w.pre, w.name)
    /\ w.ret = -EEXIST


\* the live names: the names the first parts carry
LiveNames(its) == {ItemName(its[k]) : k \in FirstParts(its)}

\* two different names with one name hash
Collide(a, b) == a # b /\ xattr_name_hash(a) = xattr_name_hash(b)

\* val_len of the header of a first part
HeaderValLen(val) == val[2] + 256 * val[3]

\* the number of parts the header of the first part at k0 calls for
PartsAt(its, k0) ==
    SCOUTFS_XATTR_NR_PARTS(its[k0][1], its[k0][2] + 256 * its[k0][3])

\* the reader is between down_read and up_read
Reading == rd.pc \in {"scan", "up_read"}

\* no task is between down_write and up_write
NoWriter == w.pc \notin {"find", "trans", "dirty", "delete", "create",
                         "commit", "release", "up_write"}

(***************************************************************************)
(* C6. Hash collisions: two different names with one name hash can both    *)
(* be live; get of either returns its own value whichever has the lower id *)
(* and however many parts the other has; a set or remove of one fails with *)
(* no error of the other's making and leaves every item of the other       *)
(* unchanged.                                                              *)
(***************************************************************************)
C6_Collisions ==
    /\ (NoWriter /\ ~dr.dead) =>
          \A k \in FirstParts(items) :
              (\E o \in LiveNames(items) : Collide(ItemName(items[k]), o)) =>
                  getxattr(items, ItemName(items[k]), SCOUTFS_XATTR_MAX_VAL_LEN)
                      = [ret |-> Len(ValueAt(items, k)), buf |-> ValueAt(items, k)]
    /\ SetSearched =>
          \A b \in Names :
              Collide(w.name, b) =>
                  ItemsOfName(items, b) = ItemsOfName(w.pre, b)
    /\ (/\ SetDone /\ SetSearched /\ w.value # NULL
        /\ ~HasFlag(w.flags, XATTR_REPLACE)
        /\ ~Live(w.pre, w.name)
        /\ \E b \in LiveNames(w.pre) : Collide(w.name, b)) =>
          w.ret \in {0, -ENOMEM}

\* a name has been set next to a colliding name of lower id and three parts
C6_Witness ==
    /\ SetDone /\ w.ret = 0 /\ w.value # NULL
    /\ \E k \in FirstParts(items) :
          /\ Collide(w.name, ItemName(items[k]))
          /\ k[2] < w.id
          /\ PartsAt(items, k) = 3
          /\ ValueAt(items, k) # w.value
    /\ getxattr(items, w.name, SCOUTFS_XATTR_MAX_VAL_LEN).buf = w.value

\* the entries of a buffer of listxattr: the names its 0 bytes end
RECURSIVE ListEntries(_, _)
ListEntries(buf, cur) ==
    IF buf = <<>> THEN <<>>
    ELSE IF Head(buf) = 0 THEN <<cur>> \o ListEntries(Tail(buf), <<>>)
    ELSE ListEntries(Tail(buf), Append(cur, Head(buf)))

RECURSIVE SumLen(_)
SumLen(S) ==
    IF S = {} THEN 0
    ELSE LET n == CHOOSE x \in S : TRUE
         IN  Len(n) + 1 + SumLen(S \ {n})

\* scoutfs_getxattr / scoutfs_listxattr has returned what it scanned
ReadDone == rd.pc = "done" /\ rd.scanned

(***************************************************************************)
(* C8. list returns exactly the live names: with a buffer that is large    *)
(* enough it ends and returns every live name once, none left out and none *)
(* twice, names with one hash and names of several parts included.         *)
(***************************************************************************)
C8_ListLiveSet ==
    (ReadDone /\ rd.op = "list" /\ rd.size >= SumLen(LiveNames(items))
              /\ rd.size > 0) =>
        LET e == ListEntries(rd.res.buf, <<>>)
        IN  /\ rd.res.ret = SumLen(LiveNames(items))
            /\ rd.res.ret = Len(rd.res.buf)
            /\ {e[i] : i \in 1..Len(e)} = LiveNames(items)
            /\ Len(e) = Cardinality(LiveNames(items))
            /\ Len(e) = Cardinality(FirstParts(items))

\* three names, two of one hash and one of three parts, have been listed
C8_Witness ==
    /\ ReadDone /\ rd.op = "list" /\ rd.size > 0
    /\ rd.res.ret = SumLen(Names)
    /\ LiveNames(items) = Names
    /\ \E k \in FirstParts(items) : PartsAt(items, k) = 3

(***************************************************************************)
(* C9. drop completeness: once drop has returned success no item is left,  *)
(* get returns NoSuchAttribute for every name and list returns 0; every    *)
(* turn of the loop that goes on has deleted one more item, so the loop    *)
(* ends though it never moves the search key past a deleted item.          *)
(***************************************************************************)
C9_DropAll ==
    /\ dr.pc \in {"loop", "done"} =>
          dr.deleted + Cardinality(DOMAIN items) = dr.start
    /\ (dr.pc = "done" /\ dr.ret = 0) =>
          /\ DOMAIN items = {}
          /\ \A n \in Names :
                getxattr(items, n, SCOUTFS_XATTR_MAX_VAL_LEN).ret = -ENODATA
          /\ \A s \in GetSizes : listxattr(items, s) = [ret |-> 0, buf |-> <<>>]

\* drop has deleted the items of several instances, one of three parts
C9_Witness ==
    /\ dr.pc = "done" /\ dr.ret = 0
    /\ dr.start >= 5 /\ dr.deleted = dr.start
    /\ items = <<>>

(***************************************************************************)
(* C10. get and the size of the buffer: for a live name of value V a size  *)
(* of 0 returns len(V); a size between 0 and len(V) returns RangeError and *)
(* writes nothing to the buffer; only a size of at least len(V) copies V.  *)
(***************************************************************************)
C10_GetSizes ==
    (ReadDone /\ rd.op = "get" /\ Live(items, rd.name)) =>
        LET v == StoredValue(items, rd.name)
        IN  rd.res = IF rd.size = 0 THEN [ret |-> Len(v), buf |-> <<>>]
                     ELSE IF rd.size < Len(v) THEN [ret |-> -ERANGE, buf |-> <<>>]
                     ELSE [ret |-> Len(v), buf |-> v]

\* a get with a buffer shorter than a three part value has returned
C10_Witness ==
    /\ ReadDone /\ rd.op = "get" /\ Live(items, rd.name)
    /\ rd.size > 0 /\ rd.size < Len(StoredValue(items, rd.name))
    /\ Len(StoredValue(items, rd.name)) = 7
    /\ rd.res = [ret |-> -ERANGE, buf |-> <<>>]

\* the errors the arguments of a set call for, one for each test they fail
ArgErrors(name, value, flags) ==
    (IF Len(name) > SCOUTFS_XATTR_MAX_NAME_LEN THEN {-ERANGE} ELSE {})
    \cup (IF value # NULL /\ Len(value) > SCOUTFS_XATTR_MAX_VAL_LEN
          THEN {-E2BIG} ELSE {})
    \cup (IF flags \notin {0, XATTR_CREATE, XATTR_REPLACE} THEN {-EINVAL} ELSE {})
    \cup (IF name[1] \notin {1, 2, 3, 4} THEN {-EOPNOTSUPP} ELSE {})

(***************************************************************************)
(* C13. Validation precedes every side effect: a set or remove whose name  *)
(* is too long (-ERANGE), whose value is too long (-E2BIG), whose flags    *)
(* hold both CREATE and REPLACE or an unknown bit (-EINVAL) or whose name  *)
(* has no known prefix (-EOPNOTSUPP) goes from the call straight to its    *)
(* return with the error of a test it fails: it takes no inode lock, no    *)
(* write lock and no transaction, draws no id, runs no lookup and changes  *)
(* no item.                                                                *)
(***************************************************************************)
C13_ValidationFirst ==
    [][/\ (/\ w.pc = "idle" /\ w'.pc # "idle"
           /\ ArgErrors(w'.name, w'.value, w'.flags) # {}) =>
              /\ w'.pc = "done"
              /\ w'.ret \in ArgErrors(w'.name, w'.value, w'.flags)
              /\ w'.lck = "none" /\ ~w'.trans /\ ~w'.tried
              /\ UNCHANGED <<items, next_xattr_id, rwsem>>
       /\ (/\ w.pc = "done"
           /\ ArgErrors(w.name, w.value, w.flags) # {}) =>
              /\ w'.pc = "idle"
              /\ UNCHANGED <<items, next_xattr_id, rwsem>>]_vars

\* a set of a name of no known prefix has returned while xattrs are live
C13_Witness ==
    /\ SetDone /\ w.ret = -EOPNOTSUPP
    /\ w.name = <<5>> /\ w.value = <<9>> /\ w.flags = 0
    /\ w.lck = "none" /\ ~w.tried /\ rwsem.w = 0
    /\ items # <<>> /\ next_xattr_id > 0

(***************************************************************************)
(* C14. Name uniqueness: in every state set, remove and sets that fail and *)
(* roll back can reach, the steps inside the write lock included, no two   *)
(* first parts carry the same name.                                        *)
(***************************************************************************)
C14_NameUnique ==
    \A k1, k2 \in FirstParts(items) :
        ItemName(items[k1]) = ItemName(items[k2]) => k1 = k2

\* a set has replaced the instance of a name next to one of the same hash
C14_Witness ==
    /\ SetDone /\ w.ret = 0 /\ w.value # NULL
    /\ w.found_parts > 0 /\ w.key[2] # w.id
    /\ InstancesOf(items, w.name) = {<<xattr_name_hash(w.name), w.id, 0>>}
    /\ \E o \in LiveNames(items) : Collide(w.name, o)

\* the part indices the items of the instance (hash, id) have
PartsOf(its, hash, id) == {k[3] : k \in {x \in DOMAIN its : x[1] = hash /\ x[2] = id}}

(***************************************************************************)
(* C15. Part contiguity: in every state outside the write lock that set    *)
(* and remove calls reach, failed and rolled back ones included, every     *)
(* instance with an item has its part 0 and exactly the parts 0..N-1, N    *)
(* the part count of the lengths in its header; every part but the last    *)
(* holds MAX_PART_SIZE bytes and the parts together hold the header, the   *)
(* name and the value.                                                     *)
(***************************************************************************)
C15_PartsContiguous ==
    (NoWriter /\ ~dr.dead) =>
        \A k \in DOMAIN items :
            /\ <<k[1], k[2], 0>> \in DOMAIN items
            /\ LET k0 == <<k[1], k[2], 0>>
                   N == PartsAt(items, k0)
               IN  /\ PartsOf(items, k[1], k[2]) = 0..(N - 1)
                   /\ \A p \in 0..(N - 2) :
                         Len(items[<<k[1], k[2], p>>]) = SCOUTFS_XATTR_MAX_PART_SIZE
                   /\ Len(InstanceBytes(items, k[1], k[2], 0))
                         = XATTR_HDR + items[k0][1] + HeaderValLen(items[k0])

\* a remove of three parts failed at its second delete and was rolled back
C15_Witness ==
    /\ SetDone /\ w.err_at = "delete" /\ w.value = NULL
    /\ w.found_parts = 3 /\ w.part = 1
    /\ PartsOf(items, w.key[1], w.key[2]) = {0, 1, 2}
    /\ Cardinality(DOMAIN items) >= 5

(***************************************************************************)
(* C16. Instance ids are never reused: next_xattr_id never goes down; a    *)
(* set with a value draws the id the counter holds and leaves the counter  *)
(* one above it, whether the set goes on to succeed, to retry on busy or   *)
(* to fail and roll back; every id of an item, live or staged for          *)
(* deletion, is below the counter, so a drawn id is above every id drawn   *)
(* before; and each part create_xattr_items creates has a key no item has  *)
(* and an id no item had when the call began.                              *)
(***************************************************************************)
C16_IdsNotReused ==
    /\ [](\A k \in DOMAIN items : k[2] < next_xattr_id)
    /\ [](\A i \in 1..Len(w.saved) : w.saved[i][1][2] < next_xattr_id)
    /\ [](~(w.err_at = "create" /\ w.ret = -EEXIST))
    /\ [][next_xattr_id' >= next_xattr_id]_vars
    /\ [][(w.pc = "find" /\ w'.pc = "trans" /\ w.value # NULL) =>
              /\ w'.id = next_xattr_id
              /\ next_xattr_id' = w'.id + 1
              /\ \A k \in DOMAIN items : k[2] < w'.id]_vars
    /\ [][(w.pc = "create" /\ w'.pc \in {"create", "commit"}) =>
              LET key == <<xattr_name_hash(w.name), w.id, w.part>>
              IN  /\ key \notin DOMAIN items
                  /\ DOMAIN items' = DOMAIN items \cup {key}
                  /\ \A k \in DOMAIN w.pre : k[2] # w.id]_vars

\* a set has created the instance of id 2 on an inode with no item, the
\* ids 0 and 1 having gone to sets before it
C16_Witness ==
    /\ SetDone /\ w.ret = 0 /\ w.value # NULL
    /\ w.pre = <<>> /\ w.id = 2 /\ next_xattr_id = 3
    /\ \A k \in DOMAIN items : k[2] = 2
    /\ items # <<>>

(***************************************************************************)
(* C17. Lock and transaction discipline: set and remove take the inode     *)
(* lock in EX mode before down_write and give it back after up_write; get  *)
(* and list take it in PR mode before down_read and give it back after     *)
(* up_read; the transaction is held only inside the write lock.  Every     *)
(* release finds what it releases held, so nothing is released twice or    *)
(* without having been acquired, and at the return of every call, through  *)
(* whichever exit, the task holds no inode lock, no side of the rwsem and  *)
(* no transaction.                                                         *)
(***************************************************************************)
C17_LockDiscipline ==
    /\ rwsem.w \in {0, 1} /\ rwsem.r \in {0, 1}
    /\ rwsem.w = 1 => (w.lck = "EX" /\ ~NoWriter)
    /\ rwsem.r = 1 => (rd.lck = "PR" /\ Reading)
    /\ w.trans => (rwsem.w = 1 /\ w.pc \in {"dirty", "delete", "create",
                                             "commit", "release"})
    /\ w.pc = "release" => w.trans
    /\ w.pc = "up_write" => (rwsem.w = 1 /\ ~w.trans)
    /\ w.pc = "unlock" => (w.lck = "EX" /\ rwsem.w = 0)
    /\ w.pc \in {"idle", "lock", "done"} =>
          (w.lck = "none" /\ rwsem.w = 0 /\ ~w.trans /\ w.saved = <<>>)
    /\ rd.pc = "up_read" => (rd.lck = "PR" /\ rwsem.r = 1)
    /\ rd.pc = "unlock" => (rd.lck = "PR" /\ rwsem.r = 0)
    /\ rd.pc \in {"idle", "lock", "done"} => (rd.lck = "none" /\ rwsem.r = 0)
    /\ w.lck \in {"none", "EX"} /\ rd.lck \in {"none", "PR"}

\* a set whose dirty step failed after a busy answer has returned
C17_Witness ==
    /\ SetDone /\ w.err_at = "dirty" /\ w.busy > 0 /\ w.tried
    /\ w.ret = -ENOMEM
    /\ w.lck = "none" /\ rwsem.w = 0 /\ ~w.trans

\* the keys of S in key order
RECURSIVE KeySeq(_)
KeySeq(S) ==
    IF S = {} THEN <<>>
    ELSE LET m == CHOOSE c \in S : \A d \in S : KeyLE(c, d)
         IN  <<m>> \o KeySeq(S \ {m})

\* the names of the first j instances in key order, each ended by a 0 byte
RECURSIVE ListPrefix(_, _)
ListPrefix(its, j) ==
    IF j = 0 THEN <<>>
    ELSE ListPrefix(its, j - 1)
             \o ItemName(its[KeySeq(FirstParts(its))[j]]) \o <<0>>

(***************************************************************************)
(* C11. list and the size of the buffer: with L the sum of name_len + 1    *)
(* over the live instances, a size of 0 returns L and writes nothing; a    *)
(* size of at least L returns L with every entry written; a size between 0 *)
(* and L returns RangeError, having written only whole entries of the      *)
(* instances that come first in key order and no more than size bytes.     *)
(***************************************************************************)
C11_ListSizes ==
    (ReadDone /\ rd.op = "list") =>
        LET n == Cardinality(FirstParts(items))
            L == Len(ListPrefix(items, n))
        IN  /\ rd.size = 0 => rd.res = [ret |-> L, buf |-> <<>>]
            /\ (rd.size > 0 /\ rd.size >= L) =>
                  rd.res = [ret |-> L, buf |-> ListPrefix(items, n)]
            /\ (rd.size > 0 /\ rd.size < L) =>
                  /\ rd.res.ret = -ERANGE
                  /\ Len(rd.res.buf) <= rd.size
                  /\ \E j \in 0..(n - 1) :
                        /\ rd.res.buf = ListPrefix(items, j)
                        /\ Len(ListPrefix(items, j + 1)) > rd.size

\* a list has written two of three entries before RangeError
C11_Witness ==
    /\ ReadDone /\ rd.op = "list"
    /\ Cardinality(FirstParts(items)) = 3
    /\ rd.size = 5
    /\ rd.res.ret = -ERANGE
    /\ rd.res.buf = ListPrefix(items, 2)


(***************************************************************************)
(* Lookups in a store that has lost continuation parts.  The stores are    *)
(* the ones the set calls leave: every name absent or set to a value,      *)
(* under ids in any order.  LosePart takes a part of index 1 or more away. *)
(***************************************************************************)
\* the items create_xattr_items creates when no create fails
RECURSIVE create_all_items(_, _, _, _, _)
create_all_items(its, name_hash, id, xat, part) ==
    LET total == part * SCOUTFS_XATTR_MAX_PART_SIZE
    IN  IF total < Len(xat)
        THEN create_all_items(
                 scoutfs_item_create(its, <<name_hash, id, part>>,
                                     create_part_val(xat, total)),
                 name_hash, id, xat, part + 1)
        ELSE its

RECURSIVE StoreOf(_, _, _)
StoreOf(names, val, id) ==
    IF names = {} THEN <<>>
    ELSE LET n == CHOOSE x \in names : TRUE
             rest == StoreOf(names \ {n}, val, id)
         IN  IF val[n] = NULL THEN rest
             ELSE create_all_items(rest, xattr_name_hash(n), id[n],
                                   prepared_xat(n, val[n]), 0)

InitLoss ==
    /\ \E val \in [Names -> Values \cup {NULL}], id \in [Names -> 0..(MaxId - 1)] :
          /\ \A a, b \in Names : a # b => id[a] # id[b]
          /\ items = StoreOf(Names, val, id)
    /\ next_xattr_id = MaxId
    /\ rwsem = [w |-> 0, r |-> 0]
    /\ w = WIdle
    /\ rd = RIdle
    /\ dr = DIdle

LosePart ==
    /\ Idle
    /\ \E k \in DOMAIN items :
          /\ k[3] >= 1
          /\ items' = scoutfs_item_delete(items, k)
    /\ UNCHANGED <<next_xattr_id, rwsem, w, rd, dr>>

NextLoss ==
    \/ LosePart
    \/ Idle /\ \E n \in Names, s \in GetSizes : scoutfs_getxattr(n, s)
    \/ ReadSteps

SpecLoss == InitLoss /\ [][NextLoss]_vars

\* the continuation parts the instance at k0 should have and has not
MissingParts(its, k0) ==
    {p \in 1..(PartsAt(its, k0) - 1) : <<k0[1], k0[2], p>> \notin DOMAIN its}

(***************************************************************************)
(* C7. Corruption is not absence: when the instance of the name has more   *)
(* than one part and a continuation part is missing, a get with a buffer   *)
(* of at least the value's length returns Corruption (-EIO), whatever      *)
(* follows the gap in key order.                                           *)
(***************************************************************************)
C7_CorruptionNotAbsence ==
    (ReadDone /\ rd.op = "get") =>
        \A k \in InstancesOf(items, rd.name) :
            (MissingParts(items, k) # {} /\ rd.size >= HeaderValLen(items[k])) =>
                rd.res = [ret |-> -EIO, buf |-> <<>>]

\* part 1 of three is gone, part 2 and another instance follow
C7_Witness ==
    /\ ReadDone /\ rd.op = "get"
    /\ rd.res.ret = -EIO
    /\ \E k \in InstancesOf(items, rd.name) :
          /\ MissingParts(items, k) = {1}
          /\ PartsAt(items, k) = 3
          /\ \E o \in FirstParts(items) : o[1] = k[1] /\ o[2] > k[2]


(***************************************************************************)
(* A task in set / remove next to a task in get / list on the inode.       *)
(***************************************************************************)
\* two names of one hash; a one part and a three part value
ConcNames == {<<1>>, <<1, 2>>}
ConcValues == {<<9>>, <<7, 6, 5, 4, 3, 2, 1>>}

NextConc ==
    \/ \E n \in ConcNames, v \in ConcValues : scoutfs_setxattr(n, v, 0)
    \/ \E n \in ConcNames : scoutfs_removexattr(n)
    \/ \E n \in ConcNames : scoutfs_getxattr(n, SCOUTFS_XATTR_MAX_VAL_LEN)
    \/ scoutfs_listxattr(SumLen(ConcNames))
    \/ SetSteps
    \/ ReadSteps

SpecConc == Init /\ [][NextConc]_vars

(***************************************************************************)
(* C3. Reader atomicity: while a get or list holds the read lock no set or *)
(* remove is between its down_write and up_write, so the scan runs before  *)
(* or after the writer's deletes and creates; what it has read is the      *)
(* whole value the name has in that store (NoSuchAttribute when the name   *)
(* has none), or the live names of that store, and never Corruption.       *)
(***************************************************************************)
C3_ReaderAtomicity ==
    /\ Reading => NoWriter
    /\ (rd.pc = "up_read" /\ rd.op = "get") =>
          getxattr_result(rd.scan, rd.size)
              = IF Live(items, rd.name)
                THEN [ret |-> Len(StoredValue(items, rd.name)),
                      buf |-> StoredValue(items, rd.name)]
                ELSE [ret |-> -ENODATA, buf |-> <<>>]
    /\ (rd.pc = "up_read" /\ rd.op = "list") =>
          LET e == ListEntries(rd.res.buf, <<>>)
          IN  /\ rd.res.ret = SumLen(LiveNames(items))
              /\ {e[i] : i \in 1..Len(e)} = LiveNames(items)

\* a get has read a three part value while a set of the name waits for it
C3_Witness ==
    /\ rd.pc = "up_read" /\ rd.op = "get"
    /\ rd.scan.ret = XATTR_HDR + Len(rd.name) + 7
    /\ w.pc = "down_write" /\ w.name = rd.name /\ w.value # NULL
    /\ rwsem.r = 1


(***************************************************************************)
(* The task in set / remove alone on the inode.  A task that has reached    *)
(* retry keeps running: none of the steps from there to its return waits   *)
(* for another task.                                                       *)
(***************************************************************************)
\* the steps of scoutfs_xattr_set from retry to its return
SetStepsFromRetry ==
    \/ SetIndexHold \/ SetDirtyInode \/ SetDeleteItem \/ SetCreateItem
    \/ SetCommit \/ SetRelease \/ SetUpWrite \/ SetUnlock

NextBusy ==
    \/ \E n \in Names, v \in Values, f \in SetFlags : scoutfs_setxattr(n, v, f)
    \/ \E n \in Names : scoutfs_removexattr(n)
    \/ SetSteps

SpecBusy == Init /\ [][NextBusy]_vars /\ WF_vars(SetStepsFromRetry)

\* scoutfs_xattr_set is at retry; w.busy counts the busy answers so far
AtRetry == w.pc = "trans"

(***************************************************************************)
(* C12. Transaction-busy is never surfaced: a busy answer of the index /   *)
(* transaction acquisition in set takes the task back to retry and not to  *)
(* its return; while it retries the inode lock and the write lock stay     *)
(* held and no item has been created or deleted; and when the busy answers *)
(* are finitely many the call returns, with a result that is not busy.     *)
(***************************************************************************)
C12_BusyRetried ==
    /\ [](SetDone => w.ret <= 0)
    /\ [](AtRetry => /\ w.lck = "EX" /\ rwsem.w = 1
                     /\ ~w.trans /\ w.saved = <<>>
                     /\ items = w.pre)
    /\ [][(AtRetry /\ w'.busy > w.busy) =>
              (w'.pc = "trans" /\ UNCHANGED <<items, rwsem>>)]_vars
    /\ AtRetry ~> (SetDone /\ w.ret <= 0)

\* a set that replaced a value after a busy answer has returned success
C12_Witness ==
    /\ SetDone /\ w.ret = 0 /\ w.busy > 0
    /\ w.found_parts > 0 /\ w.value # NULL
    /\ items # w.pre


(***************************************************************************)
(* Lookups and enumerations in a store whose part 0 of one instance is     *)
(* damaged: cut short of its header or of the name its header declares,    *)
(* or with a length in the header out of range.                            *)
(***************************************************************************)
\* what a part 0 payload looks like after the damage of one kind
damaged_part0(val, kind) ==
    IF kind = "no_header" THEN SubSeq(val, 1, XATTR_HDR - 1)
    ELSE IF kind = "short_name" THEN SubSeq(val, 1, XATTR_HDR + val[1] - 1)
    ELSE IF kind = "name_len"
    THEN [val EXCEPT ![1] = SCOUTFS_XATTR_MAX_NAME_LEN + 1]
    ELSE [val EXCEPT ![2] = SCOUTFS_XATTR_MAX_VAL_LEN + 1]

\* a part 0 payload the header tests are there to turn down
BadPart0(val) ==
    IF Len(val) < XATTR_HDR THEN TRUE
    ELSE \/ Len(val) < XATTR_HDR + val[1]
         \/ val[1] > SCOUTFS_XATTR_MAX_NAME_LEN
         \/ HeaderValLen(val) > SCOUTFS_XATTR_MAX_VAL_LEN

BadFirstParts(its) == {k \in FirstParts(its) : BadPart0(its[k])}

DamageHeader ==
    /\ Idle
    /\ BadFirstParts(items) = {}
    /\ \E k \in FirstParts(items),
          kind \in {"no_header", "short_name", "name_len", "val_len"} :
          items' = [items EXCEPT ![k] = damaged_part0(items[k], kind)]
    /\ UNCHANGED <<next_xattr_id, rwsem, w, rd, dr>>

\* a size query and a buffer that holds any value or any list of names
DamageSizes == {0, SCOUTFS_XATTR_MAX_VAL_LEN + 1}

NextDamage ==
    \/ DamageHeader
    \/ Idle /\ \E n \in Names, s \in DamageSizes : scoutfs_getxattr(n, s)
    \/ Idle /\ \E s \in DamageSizes : scoutfs_listxattr(s)
    \/ ReadSteps

SpecDamage == InitLoss /\ [][NextDamage]_vars

\* the sound first parts that carry name
SoundInstancesOf(its, name) ==
    {k \in FirstParts(its) \ BadFirstParts(its) : ItemName(its[k]) = name}

\* the first parts the lookup of name reads: those of the hash of the name
\* up to the first that carries the name
LookupCandidates(its, name) ==
    {k \in FirstParts(its) :
        /\ k[1] = xattr_name_hash(name)
        /\ \A m \in SoundInstancesOf(its, name) : k[2] <= m[2]}

(***************************************************************************)
(* C18. Header validation of every candidate, in both modes: when a part 0 *)
(* that a lookup by name or an enumeration reads is shorter than the       *)
(* header plus the name_len it declares, or declares a name_len above      *)
(* MAX_NAME_LEN or a val_len above MAX_VAL_LEN, the get or the list that   *)
(* ran the scan returns Corruption (-EIO): it neither reports the xattr    *)
(* nor NoSuchAttribute.                                                    *)
(***************************************************************************)
C18_HeaderValidated ==
    /\ (/\ ReadDone /\ rd.op = "list"
        /\ BadFirstParts(items) # {}) =>
           rd.res.ret = -EIO
    /\ (/\ ReadDone /\ rd.op = "get"
        /\ LookupCandidates(items, rd.name) \cap BadFirstParts(items) # {}) =>
           rd.res.ret = -EIO


(***************************************************************************)
(* get_next_xattr called on its own, by name and as an enumeration, with   *)
(* buffers of a part, of more than a part and of the longest xattr, on the *)
(* stores the set calls leave.  rd.op = "next" marks the call, rd.size its *)
(* bytes, rd.name its name (<<>> for none) and rd.scan what it returned.   *)
(***************************************************************************)
NextSizes ==
    {SCOUTFS_XATTR_MAX_PART_SIZE, SCOUTFS_XATTR_MAX_PART_SIZE + 3,
     XATTR_HDR + SCOUTFS_XATTR_MAX_NAME_LEN + SCOUTFS_XATTR_MAX_VAL_LEN}

get_next_xattr_call(name, name_hash, id, bytes) ==
    /\ rd.pc = "idle"
    /\ rd' = [RIdle EXCEPT !.pc = "done", !.op = "next", !.name = name,
                !.size = bytes, !.scanned = TRUE,
                !.scan = get_next_xattr(items, kmalloc(bytes), bytes,
                                        name, name_hash, id)]
    /\ UNCHANGED <<items, next_xattr_id, rwsem, w, dr>>

NextEngine ==
    \/ \E n \in Names, b \in NextSizes : get_next_xattr_call(n, 0, 0, b)
    \/ \E h \in 0..U32_MAX, id \in 0..(MaxId - 1), b \in NextSizes :
          get_next_xattr_call(<<>>, h, id, b)
    \/ ReadReturn

SpecEngine == InitLoss /\ [][NextEngine]_vars

(***************************************************************************)
(* C19. Continuation parts in both modes: when get_next_xattr finds an     *)
(* xattr, by name or as the next one of an enumeration, it reads the parts *)
(* after part 0 up to the last one of the header, so that the bytes it     *)
(* returns are the smaller of the buffer's size and the whole of the       *)
(* header, name and value, and the buffer holds those bytes.               *)
(***************************************************************************)
C19_AllPartsRead ==
    (rd.pc = "done" /\ rd.op = "next" /\ rd.scan.ret >= 0) =>
        LET all == InstanceBytes(items, rd.scan.key[1], rd.scan.key[2], 0)
        IN  /\ rd.scan.ret = Min(rd.size, Len(all))
            /\ SubSeq(rd.scan.xat, 1, rd.scan.ret) = SubSeq(all, 1, rd.scan.ret)


(***************************************************************************)
(* scoutfs_xattr_drop on inodes of up to six xattrs and eighteen items,    *)
(* more than one hold covers.                                              *)
(***************************************************************************)
DropNames == {<<1>>, <<2>>, <<3>>, <<4>>, <<1, 2>>, <<2, 1>>}
DropValues == {<<9>>, <<7, 6, 5, 4, 3, 2, 1>>}

\* the id of each name: the place of its set among the sets of the inode
DropId(n) ==
    IF Len(n) = 1 THEN n[1] - 1 ELSE IF n = <<1, 2>> THEN 4 ELSE 5

InitDrop ==
    /\ \E val \in [DropNames -> DropValues \cup {NULL}] :
          items = StoreOf(DropNames, val, [n \in DropNames |-> DropId(n)])
    /\ next_xattr_id = Cardinality(DropNames)
    /\ rwsem = [w |-> 0, r |-> 0]
    /\ w = WIdle
    /\ rd = RIdle
    /\ dr = DIdle

NextDrop ==
    \/ Idle /\ scoutfs_xattr_drop
    \/ DropSteps

SpecDrop == InitDrop /\ [][NextDrop]_vars

(***************************************************************************)
(* C20. drop and its transaction holds: every delete of drop is done with  *)
(* a hold outstanding; no hold covers more than 16 deletes and the 16th    *)
(* delete of a hold is followed at once by its release; a new hold is      *)
(* taken only when none is outstanding; and at the return, whether the     *)
(* items ran out, a hold failed or a delete failed, every hold that was    *)
(* granted has been released once and none is outstanding.                 *)
(***************************************************************************)
C20_DropBatches ==
    /\ [](dr.holding => (dr.pc = "loop" /\ dr.holds = dr.releases + 1
                         /\ dr.batch < DROP_ITEMS))
    /\ [](~dr.holding => dr.holds = dr.releases)
    /\ [](dr.batch <= DROP_ITEMS)
    /\ [](dr.holds > 0 => dr.deleted = DROP_ITEMS * (dr.holds - 1) + dr.batch)
    /\ [](dr.holds = 0 => dr.deleted = 0)
    /\ [](dr.pc = "done" => (~dr.holding /\ dr.holds = dr.releases))
    /\ [][(dr.pc = "loop" /\ items' # items) =>
              /\ dr.holding \/ dr'.holds = dr.holds + 1
              /\ dr'.holds > dr.releases
              /\ dr'.batch = DROP_ITEMS => (~dr'.holding
                                            /\ dr'.releases = dr.releases + 1)
              /\ dr'.batch < DROP_ITEMS => (dr'.holding
                                            /\ dr'.releases = dr.releases)]_vars

\* a delete has failed under the second hold, after the sixteen deletes of
\* the first
C20_Witness ==
    /\ dr.pc = "done" /\ dr.ret = -ENOMEM
    /\ dr.deleted = DROP_ITEMS + 1
    /\ dr.holds = 2 /\ dr.releases = 2 /\ ~dr.holding
    /\ Cardinality(DOMAIN items) = 1


====
